---- MODULE Spec2Model ----
(***************************************************************************)
(* env-management.py: the execution follower (follow_execution) and the    *)
(* four lifecycle operations built on it (create, delete, install,         *)
(* uninstall), run against a remote orchestration service.                 *)
(*                                                                         *)
(* The remote service is the environment.  It keeps, for the execution     *)
(* being followed, an append-only event log whose reported_timestamp never *)
(* decreases, and a status that stops changing once it is terminal.  It    *)
(* may append an event at any moment, also after the status is terminal.   *)
(* A page request at an offset returns any number of the events stored     *)
(* from that offset on (at most _size) together with the number stored.    *)
(***************************************************************************)
EXTENDS Naturals, Sequences, FiniteSets

VARIABLES
    op,               \* the lifecycle operation main() dispatched to
    ip,               \* index of the next step of that operation
    outcome,          \* "running", "done", or "raised"
    trace,            \* outbound calls issued and follow verdicts, in order
    resources,        \* what exists at the service: "blueprint", "deployment"
    outputs_file,     \* whether create wrote its result record
    execId,           \* id of the service's most recent execution
    workflow,         \* workflow_id of that execution
    status,           \* status of that execution at the service
    events,           \* event log of that execution at the service
    execution,        \* follow_execution's local `execution`
    fpc,              \* position inside follow_execution
    offset,           \* follow_execution's local `offset`
    execution_ended,  \* follow_execution's local `execution_ended`
    items,            \* events_list_response.items of the latest page
    total,            \* metadata.pagination.total of the latest page
    emitted,          \* events logged by this follow_execution call
    result,           \* how this follow_execution call ended
    endLog,           \* which summary line was logged after the loop
    heldAtEnd,        \* history: events stored when the terminal status was read
    emittedAtEnd,     \* history: number of events emitted before that read
    fetchedAfterEnd,  \* history: a page was fetched after that read
    heldAtReturn      \* history: events stored when follow_execution ended

vars == <<op, ip, outcome, trace, resources, outputs_file, execId, workflow,
          status, events, execution, fpc, offset, execution_ended, items,
          total, emitted, result, endLog, heldAtEnd, emittedAtEnd,
          fetchedAfterEnd, heldAtReturn>>

lifecycleVars == <<op, ip, outcome, trace, resources, outputs_file>>
serviceVars == <<execId, workflow, status, events>>
followVars == <<execution, fpc, offset, execution_ended, items, total,
                emitted, result, endLog, heldAtEnd, emittedAtEnd,
                fetchedAfterEnd, heldAtReturn>>

(***************************************************************************)
(* Bounds of the model.                                                    *)
(***************************************************************************)
MaxEvents == 3
MaxTimestamp == 2

(***************************************************************************)
(* Program constants.                                                      *)
(***************************************************************************)
PageSize == 500

TERMINATED == "terminated"
FAILED == "failed"
CANCELLED == "cancelled"
END_STATES == {TERMINATED, FAILED, CANCELLED}

Min(a, b) == IF a < b THEN a ELSE b

(***************************************************************************)
(* The four lifecycle operations as the ordered steps their code issues.   *)
(***************************************************************************)
Step(call, arg, id) == [call |-> call, arg |-> arg, id |-> id]

_create_deployment(blueprint_id, deployment_id) ==
    << Step("deployments.create", blueprint_id, deployment_id),
       Step("executions.list", "", deployment_id),
       Step("follow_execution", "create_deployment_environment", "") >>

_delete_deployment(deployment_id) ==
    << Step("deployments.delete", "", deployment_id) >>

_installNotFollowed(deployment_id) ==
    << Step("executions.start", "install", deployment_id) >>
_install(deployment_id) ==
    << Step("executions.start", "install", deployment_id),
       Step("follow_execution", "install", "") >>

_uninstall(deployment_id) ==
    << Step("executions.start", "uninstall", deployment_id),
       Step("follow_execution", "uninstall", "") >>

create ==
    _create_deployment("blueprint_id", "env_deployment_id")
        \o _install("env_deployment_id")
        \o << Step("capabilities.get", "", "env_deployment_id"),
              Step("outputs.get", "", "env_deployment_id"),
              Step("json.dump", "", "env_deployment_id") >>

deleteBeforeUninstall ==
    _delete_deployment("env_deployment_id") \o _uninstall("env_deployment_id")
delete ==
    _uninstall("env_deployment_id") \o _delete_deployment("env_deployment_id")

installBeforeUpload ==
    _create_deployment("app_id", "app_id")
        \o << Step("blueprints.upload", "app_blueprint_path", "app_id") >>
        \o _install("app_id")
install ==
    << Step("blueprints.upload", "app_blueprint_path", "app_id") >>
        \o _create_deployment("app_id", "app_id")
        \o _install("app_id")

uninstallBlueprintFirst ==
    _uninstall("app_id")
        \o << Step("blueprints.delete", "", "app_id") >>
        \o _delete_deployment("app_id")
uninstall ==
    _uninstall("app_id")
        \o _delete_deployment("app_id")
        \o << Step("blueprints.delete", "", "app_id") >>

Operations == {"create", "delete", "install", "uninstall"}

Program(o) ==
    CASE o = "create" -> create
      [] o = "delete" -> delete
      [] o = "install" -> install
      [] o = "uninstall" -> uninstall

Resource(kind, id) == [kind |-> kind, id |-> id]

\* What the caller must have in place: create names an uploaded blueprint,
\* delete and uninstall name what an earlier create or install left.
InitialResources(o) ==
    CASE o = "create" -> {Resource("blueprint", "blueprint_id")}
      [] o = "delete" -> {Resource("blueprint", "blueprint_id"),
                          Resource("deployment", "env_deployment_id")}
      [] o = "install" -> {}
      [] o = "uninstall" -> {Resource("blueprint", "app_id"),
                             Resource("deployment", "app_id")}

AtStep == outcome = "running" /\ fpc = "idle" /\ ip <= Len(Program(op))
Cur == Program(op)[ip]
At(call) == AtStep /\ Cur.call = call

Entry(call, arg, id, st) ==
    [call |-> call, arg |-> arg, id |-> id, status |-> st]

\* The step returned: go to the next one, or the operation is complete.
Advance ==
    /\ ip' = ip + 1
    /\ outcome' = IF ip + 1 > Len(Program(op)) THEN "done" ELSE "running"

\* An exception in a step: no caller catches it, the operation ends there.
PropagateSwallowed == Advance
PropagateRetried ==
    /\ ip' = ip
    /\ outcome' = "running"
Propagate ==
    /\ ip' = ip
    /\ outcome' = "raised"

NoResult == [kind |-> "none", id |-> 0, status |-> "none"]
NoExecution == [id |-> 0, workflow_id |-> "none", status |-> "none"]

Init ==
    /\ op \in Operations
    /\ ip = 1
    /\ outcome = "running"
    /\ trace = << >>
    /\ resources = InitialResources(op)
    /\ outputs_file = "absent"
    /\ execId = 0
    /\ workflow = "none"
    /\ status = "none"
    /\ events = << >>
    /\ execution = NoExecution
    /\ fpc = "idle"
    /\ offset = 0
    /\ execution_ended = FALSE
    /\ items = << >>
    /\ total = 0
    /\ emitted = << >>
    /\ result = NoResult
    /\ endLog = "none"
    /\ heldAtEnd = << >>
    /\ emittedAtEnd = 0
    /\ fetchedAfterEnd = FALSE
    /\ heldAtReturn = << >>

(***************************************************************************)
(* The remote service.                                                     *)
(***************************************************************************)
\* The service starts a new execution: its log is empty, its status pending.
NewExecution(wf) ==
    /\ execId' = execId + 1
    /\ workflow' = wf
    /\ status' = "pending"
    /\ events' = << >>

LastTimestamp == IF events = << >> THEN 1 ELSE events[Len(events)].ts

\* The running workflow reports one more event or log line.
ProduceEvent ==
    /\ execId > 0
    /\ Len(events) < MaxEvents
    /\ \E t \in LastTimestamp..MaxTimestamp :
          events' = Append(events, [n |-> Len(events) + 1, ts |-> t])
    /\ UNCHANGED <<execId, workflow, status>>
    /\ UNCHANGED <<lifecycleVars, followVars>>

NextStatuses(s) ==
    CASE s = "pending" -> {"started", CANCELLED}
      [] s = "started" -> {TERMINATED, FAILED, "cancelling"}
      [] s = "cancelling" -> {CANCELLED}
      [] OTHER -> {}

\* The execution moves on; a terminal status is never left.
AdvanceStatus ==
    /\ execId > 0
    /\ \E s \in NextStatuses(status) : status' = s
    /\ UNCHANGED <<execId, workflow, events>>
    /\ UNCHANGED <<lifecycleVars, followVars>>

\* Number of events stored from position off on.
Available(off) == IF off >= Len(events) THEN 0 ELSE Len(events) - off

\* events.list(_offset=off, _size=PageSize, sort='reported_timestamp'): the n
\* stored events that follow the first off, in stored (timestamp) order.
Page(off, n) == SubSeq(events, off + 1, off + n)

(***************************************************************************)
(* follow_execution                                                        *)
(***************************************************************************)
\* offset += len(events_list_response.items)
NextOffsetAssigned(off, page) == Len(page)
NextOffsetBySize(off, page) == off + PageSize
NextOffset(off, page) == off + Len(page)

\* Where the loop goes after a page: fetch again while the page reported more
\* than was read, leave once the execution had ended, else read the status.
AfterPageStatusFirst(off, tot, ended) ==
    IF ended THEN "end" ELSE "get"
AfterPageLeavesWhenDrained(off, tot, ended) ==
    IF off < tot THEN "list" ELSE "end"
AfterPageRereadsStatus(off, tot, ended) ==
    IF off < tot THEN "list" ELSE "get"
AfterPage(off, tot, ended) ==
    IF off < tot THEN "list"
    ELSE IF ended THEN "end"
    ELSE "get"

\* execution.status in Execution.END_STATES
InEndStatesOnlyTerminated(st) == st = TERMINATED
InEndStates(st) == st \in END_STATES

\* Where the loop goes after the status read.
AfterStatusLeaves(st) == IF InEndStates(st) THEN "end" ELSE "sleep"
AfterStatusAlwaysSleeps(st) == "sleep"
AfterStatus(st) == IF InEndStates(st) THEN "list" ELSE "sleep"

\* execution.status != Execution.TERMINATED
DidNotEndProperlyOnlyFailed(st) == st = FAILED
DidNotEndProperly(st) == st /= TERMINATED

\* Lines 20-27: the start summary line, offset = 0, execution_ended = False.
FollowBegin ==
    /\ At("follow_execution")
    /\ fpc' = "list"
    /\ offset' = 0
    /\ execution_ended' = FALSE
    /\ items' = << >>
    /\ total' = 0
    /\ emitted' = << >>
    /\ result' = NoResult
    /\ endLog' = "none"
    /\ heldAtEnd' = << >>
    /\ emittedAtEnd' = 0
    /\ fetchedAfterEnd' = FALSE
    /\ heldAtReturn' = << >>
    /\ UNCHANGED execution
    /\ UNCHANGED <<lifecycleVars, serviceVars>>

\* Lines 29-51: fetch one page, log its items, advance offset, choose the branch.
EventsList ==
    /\ outcome = "running"
    /\ fpc = "list"
    /\ \E n \in 0..Min(PageSize, Available(offset)) :
          LET page == Page(offset, n)
              tot == Len(events)
              off == NextOffset(offset, page)
          IN  /\ items' = page
              /\ emitted' = emitted \o page
              /\ offset' = off
              /\ total' = tot
              /\ fpc' = AfterPage(off, tot, execution_ended)
    /\ fetchedAfterEnd' = (fetchedAfterEnd \/ execution_ended)
    /\ UNCHANGED <<execution, execution_ended, result, endLog, heldAtEnd,
                   emittedAtEnd, heldAtReturn>>
    /\ UNCHANGED <<lifecycleVars, serviceVars>>

\* Lines 53-58: re-read the execution; note a terminal status.
ExecutionsGet ==
    /\ outcome = "running"
    /\ fpc = "get"
    /\ execution' = [id |-> execution.id, workflow_id |-> workflow,
                     status |-> status]
    /\ execution_ended' = (IF InEndStates(status) THEN TRUE ELSE execution_ended)
    /\ heldAtEnd' = IF InEndStates(status) THEN events ELSE heldAtEnd
    /\ emittedAtEnd' = IF InEndStates(status) THEN Len(emitted)
                                              ELSE emittedAtEnd
    /\ fpc' = AfterStatus(status)
    /\ UNCHANGED <<offset, items, total, emitted, result, endLog,
                   fetchedAfterEnd, heldAtReturn>>
    /\ UNCHANGED <<lifecycleVars, serviceVars>>

\* Line 59: time.sleep(1)
Sleep ==
    /\ outcome = "running"
    /\ fpc = "sleep"
    /\ fpc' = "list"
    /\ UNCHANGED <<execution, offset, execution_ended, items, total, emitted,
                   result, endLog, heldAtEnd, emittedAtEnd, fetchedAfterEnd,
                   heldAtReturn>>
    /\ UNCHANGED <<lifecycleVars, serviceVars>>

\* Lines 61-70: the end summary line, then return the execution or raise.
FollowEnd ==
    /\ outcome = "running"
    /\ fpc = "end"
    /\ endLog' = IF execution_ended THEN "finished" ELSE "timed_out"
    /\ heldAtReturn' = events
    /\ fpc' = "idle"
    /\ IF DidNotEndProperly(execution.status)
       THEN /\ result' = [kind |-> "raised", id |-> execution.id,
                          status |-> execution.status]
            /\ trace' = Append(trace, Entry("follow.raised",
                              execution.workflow_id, "", execution.status))
            /\ Propagate
       ELSE /\ result' = [kind |-> "returned", id |-> execution.id,
                          status |-> execution.status]
            /\ trace' = Append(trace, Entry("follow.returned",
                              execution.workflow_id, "", execution.status))
            /\ Advance
    /\ UNCHANGED <<op, resources, outputs_file>>
    /\ UNCHANGED <<execution, offset, execution_ended, items, total, emitted,
                   heldAtEnd, emittedAtEnd, fetchedAfterEnd>>
    /\ UNCHANGED serviceVars

(***************************************************************************)
(* The outbound calls of the lifecycle operations.                         *)
(***************************************************************************)
Issued(step) == trace' = Append(trace, Entry(step.call, step.arg, step.id, ""))

\* client.blueprints.upload(path=app_blueprint_path, entity_id=app_id)
BlueprintsUpload ==
    /\ At("blueprints.upload")
    /\ resources' = resources \cup {Resource("blueprint", Cur.id)}
    /\ Issued(Cur)
    /\ Advance
    /\ UNCHANGED <<op, outputs_file>>
    /\ UNCHANGED <<serviceVars, followVars>>

\* client.deployments.create(...): the service starts the creation execution.
DeploymentsCreate ==
    /\ At("deployments.create")
    /\ resources' = resources \cup {Resource("deployment", Cur.id)}
    /\ NewExecution("create_deployment_environment")
    /\ Issued(Cur)
    /\ Advance
    /\ UNCHANGED <<op, outputs_file>>
    /\ UNCHANGED followVars

\* dep_execution = client.executions.list(deployment_id=deployment_id)[0]
ExecutionsList ==
    /\ At("executions.list")
    /\ execution' = [id |-> execId, workflow_id |-> workflow, status |-> status]
    /\ Issued(Cur)
    /\ Advance
    /\ UNCHANGED <<op, resources, outputs_file>>
    /\ UNCHANGED <<fpc, offset, execution_ended, items, total, emitted, result,
                   endLog, heldAtEnd, emittedAtEnd, fetchedAfterEnd,
                   heldAtReturn>>
    /\ UNCHANGED serviceVars

\* client.executions.start(deployment_id=..., workflow_id='install'|'uninstall')
ExecutionsStart ==
    /\ At("executions.start")
    /\ NewExecution(Cur.arg)
    /\ execution' = [id |-> execId + 1, workflow_id |-> Cur.arg,
                     status |-> "pending"]
    /\ Issued(Cur)
    /\ Advance
    /\ UNCHANGED <<op, resources, outputs_file>>
    /\ UNCHANGED <<fpc, offset, execution_ended, items, total, emitted, result,
                   endLog, heldAtEnd, emittedAtEnd, fetchedAfterEnd,
                   heldAtReturn>>

\* client.deployments.delete(deployment_id=deployment_id)
DeploymentsDelete ==
    /\ At("deployments.delete")
    /\ resources' = resources \ {Resource("deployment", Cur.id)}
    /\ Issued(Cur)
    /\ Advance
    /\ UNCHANGED <<op, outputs_file>>
    /\ UNCHANGED <<serviceVars, followVars>>

\* client.blueprints.delete(app_id)
BlueprintsDelete ==
    /\ At("blueprints.delete")
    /\ resources' = resources \ {Resource("blueprint", Cur.id)}
    /\ Issued(Cur)
    /\ Advance
    /\ UNCHANGED <<op, outputs_file>>
    /\ UNCHANGED <<serviceVars, followVars>>

\* capabilities = client.deployments.capabilities.get(env_deployment_id)
CapabilitiesGet ==
    /\ At("capabilities.get")
    /\ Issued(Cur)
    /\ Advance
    /\ UNCHANGED <<op, resources, outputs_file>>
    /\ UNCHANGED <<serviceVars, followVars>>

\* outputs = client.deployments.outputs.get(env_deployment_id)
OutputsGet ==
    /\ At("outputs.get")
    /\ Issued(Cur)
    /\ Advance
    /\ UNCHANGED <<op, resources, outputs_file>>
    /\ UNCHANGED <<serviceVars, followVars>>

\* json.dump({manager_id, deployment_id, outputs, capabilities}, f)
JsonDump ==
    /\ At("json.dump")
    /\ outputs_file' = "written"
    /\ Issued(Cur)
    /\ Advance
    /\ UNCHANGED <<op, resources>>
    /\ UNCHANGED <<serviceVars, followVars>>

(***************************************************************************)
(* A failing outbound call: no handler anywhere, so the exception leaves   *)
(* follow_execution (when raised inside it) and the lifecycle operation.   *)
(***************************************************************************)
RemoteCalls ==
    {"blueprints.upload", "deployments.create", "executions.list",
     "executions.start", "deployments.delete", "blueprints.delete",
     "capabilities.get", "outputs.get"}

CallFails ==
    /\ outcome = "running"
    /\ \/ /\ AtStep
          /\ Cur.call \in RemoteCalls
          /\ trace' = Append(trace, Entry("error", Cur.call, Cur.id, ""))
          /\ UNCHANGED followVars
       \/ /\ fpc \in {"list", "get"}
          /\ trace' = Append(trace, Entry("error",
                         IF fpc = "list" THEN "events.list"
                                         ELSE "executions.get", "", ""))
          /\ result' = [kind |-> "transport", id |-> execution.id,
                        status |-> execution.status]
          /\ heldAtReturn' = events
          /\ fpc' = "idle"
          /\ UNCHANGED <<execution, offset, execution_ended, items, total,
                         emitted, endLog, heldAtEnd, emittedAtEnd,
                         fetchedAfterEnd>>
    /\ Propagate
    /\ UNCHANGED <<op, resources, outputs_file>>
    /\ UNCHANGED serviceVars

Next ==
    \/ ProduceEvent
    \/ AdvanceStatus
    \/ FollowBegin
    \/ EventsList
    \/ ExecutionsGet
    \/ Sleep
    \/ FollowEnd
    \/ BlueprintsUpload
    \/ DeploymentsCreate
    \/ ExecutionsList
    \/ ExecutionsStart
    \/ DeploymentsDelete
    \/ BlueprintsDelete
    \/ CapabilitiesGet
    \/ OutputsGet
    \/ JsonDump
    \/ CallFails

Spec == Init /\ [][Next]_vars

\* The latest page returned no item although it reported more than offset.
StarvedPage == fpc = "list" /\ items = << >> /\ offset < total

\* The program keeps running: a call that was issued returns and the next
\* statement is executed.  Whether a page holds items is the service's choice,
\* so nothing obliges a fetch that follows a starved page to make progress.
\* The execution does not stay in a non-terminal status forever.
Fairness ==
    /\ WF_vars(EventsList /\ ~StarvedPage)
    /\ WF_vars(ExecutionsGet)
    /\ WF_vars(Sleep)
    /\ WF_vars(FollowEnd)
    /\ WF_vars(AdvanceStatus)

SpecFair == Spec /\ Fairness

(***************************************************************************)
(* Properties of follow_execution.                                         *)
(***************************************************************************)
\* follow_execution ended by its own return or by its own raise (line 68).
Verdict == result.kind \in {"returned", "raised"}

IsPrefix(p, q) == Len(p) <= Len(q) /\ SubSeq(q, 1, Len(p)) = p

\* C1 as stated: every event the service holds when follow_execution returns
\* or raises has been emitted exactly once, in page order, and the number
\* emitted equals the final total.
C1_AllHeldAtReturnEmitted ==
    Verdict => /\ emitted = heldAtReturn
               /\ Len(emitted) = total

\* C1 amended: when follow_execution returns or raises its status error,
\* every event the service held when the last page was fetched has been
\* emitted exactly once, in the order the pages returned them, and the number
\* emitted equals the total that last page reported.
C1_AllFetchedEmittedOnce ==
    Verdict => /\ total <= Len(heldAtReturn)
               /\ emitted = SubSeq(heldAtReturn, 1, total)
               /\ Len(emitted) = total
               /\ \A i \in 1..Len(emitted) : emitted[i].n = i

\* C1 witness: a verdict after several events were emitted, with an event
\* stored after the last page was fetched.
C1_Witness ==
    /\ Verdict
    /\ Len(emitted) >= 2
    /\ Len(heldAtReturn) > total

\* C2: after a terminal status was read, at least one more page is fetched
\* before the loop is left, and every event stored at the moment of that read
\* is emitted before follow_execution returns or raises.
C2_DrainAfterTerminalStatus ==
    (fpc = "end" \/ Verdict) =>
        /\ fetchedAfterEnd
        /\ IsPrefix(heldAtEnd, emitted)

\* C2 witness: a verdict where events were stored but not yet emitted when the
\* terminal status was read.
C2_Witness ==
    /\ Verdict
    /\ Len(heldAtEnd) > emittedAtEnd

\* C3: follow_execution returns exactly when the terminal status it read is
\* terminated; for every other terminal status it raises an error carrying
\* the execution id and that status.
C3_VerdictFollowsStatus ==
    /\ fpc = "end" => (execution.id = execId /\ execution.status = status)
    /\ result.kind = "returned" => result.status = TERMINATED
    /\ result.kind = "raised" => result.status \in END_STATES \ {TERMINATED}
    /\ (Verdict /\ execId = result.id) => result.status = status

\* C3 witness: an execution that ended cancelled made follow_execution raise.
C3_Witness ==
    /\ result.kind = "raised"
    /\ result.status = CANCELLED
    /\ result.id = execId

\* C4: the loop is left only with execution_ended true, the 'Timed out'
\* branch is never taken, there is no verdict while the execution has not
\* reached a terminal status, and until then the follower always has a next
\* poll step.
C4_NoVerdictBeforeTerminal ==
    /\ fpc = "end" => execution_ended
    /\ endLog /= "timed_out"
    /\ fpc = "end" => execution.status \in END_STATES
    /\ Verdict => (execution_ended /\ result.status \in END_STATES)
    /\ (fpc \in {"list", "get", "sleep", "end"} /\ ~InEndStates(status)) =>
          /\ fpc /= "end"
          /\ ~execution_ended
          /\ ENABLED (EventsList \/ ExecutionsGet \/ Sleep)

\* C4 witness: the follower sleeps again, everything produced so far emitted,
\* while the execution is still not terminal.
C4_Witness ==
    /\ fpc = "sleep"
    /\ ~InEndStates(status)
    /\ emitted /= << >>
    /\ emitted = events

\* C5: events are emitted in non-decreasing reported_timestamp order, within
\* one page and across pages.
C5_EmittedInTimestampOrder ==
    \A i, j \in 1..Len(emitted) : i < j => emitted[i].ts <= emitted[j].ts

\* C5 witness: the latest page added later-stamped events to events emitted
\* from an earlier page.
C5_Witness ==
    /\ items /= << >>
    /\ Len(emitted) > Len(items)
    /\ emitted[1].ts < emitted[Len(emitted)].ts

(***************************************************************************)
(* Properties of the lifecycle operations.                                 *)
(***************************************************************************)
\* follow_execution raised: its own error, or a failed call inside it.
FollowRaised(e) ==
    \/ e.call = "follow.raised"
    \/ (e.call = "error" /\ e.arg \in {"events.list", "executions.get"})

Aborted(e) == e.call \in {"follow.raised", "error"}

\* The steps that returned: the trace without the entry of a step that raised.
Returned ==
    IF trace /= << >> /\ Aborted(trace[Len(trace)])
    THEN SubSeq(trace, 1, Len(trace) - 1)
    ELSE trace

\* Entry e is the call (or the successful follow) the pair t names.
Matches(e, t) ==
    /\ e.call = t[1]
    /\ e.arg = t[2]
    /\ e.call = "follow.returned" => e.status = TERMINATED

\* The steps that returned are the first steps of the given order.
InOrder(order) ==
    /\ Len(Returned) <= Len(order)
    /\ \A i \in 1..Len(Returned) : Matches(Returned[i], order[i])

\* Some entry before position i is the successful follow of workflow wf.
FollowedBefore(i, wf) ==
    \E j \in 1..(i - 1) :
        /\ trace[j].call = "follow.returned"
        /\ trace[j].arg = wf
        /\ trace[j].status = TERMINATED

IssuedBefore(i, call) == \E j \in 1..(i - 1) : trace[j].call = call

\* What exists at the service after the calls of a trace prefix.
RECURSIVE ResourcesAfter(_, _)
ResourcesAfter(rs, calls) ==
    IF calls = << >> THEN rs
    ELSE LET e == Head(calls)
             next ==
                CASE e.call = "blueprints.upload" ->
                        rs \cup {Resource("blueprint", e.id)}
                  [] e.call = "deployments.create" ->
                        rs \cup {Resource("deployment", e.id)}
                  [] e.call = "deployments.delete" ->
                        rs \ {Resource("deployment", e.id)}
                  [] e.call = "blueprints.delete" ->
                        rs \ {Resource("blueprint", e.id)}
                  [] OTHER -> rs
         IN  ResourcesAfter(next, Tail(calls))

\* C6: once follow_execution raised for a step, the operation has ended, no
\* later step and no compensating call was issued, and what the earlier steps
\* created is still there.
C6_RaiseAbortsWithoutRollback ==
    \A i \in 1..Len(trace) :
        FollowRaised(trace[i]) =>
            /\ i = Len(trace)
            /\ outcome = "raised"
            /\ outputs_file = "absent"
            /\ resources =
                  ResourcesAfter(InitialResources(op), SubSeq(trace, 1, i - 1))

\* C6 witness: in create the deployment was created, the install execution
\* failed, and the deployment is still there.
C6_Witness ==
    /\ op = "create"
    /\ trace /= << >>
    /\ trace[Len(trace)].call = "follow.raised"
    /\ trace[Len(trace)].arg = "install"
    /\ Resource("deployment", "env_deployment_id") \in resources

\* C7: create issues create-deployment, follows the creation execution,
\* starts install, follows it, then reads capabilities and outputs and writes
\* the record: install is started only after the creation execution was
\* followed to terminated, and the reads and the record come only after the
\* install execution was followed to terminated.
C7_CreateOrder ==
    op = "create" =>
        /\ InOrder(<< <<"deployments.create", "blueprint_id">>,
                      <<"executions.list", "">>,
                      <<"follow.returned", "create_deployment_environment">>,
                      <<"executions.start", "install">>,
                      <<"follow.returned", "install">>,
                      <<"capabilities.get", "">>,
                      <<"outputs.get", "">>,
                      <<"json.dump", "">> >>)
        /\ \A i \in 1..Len(trace) :
              /\ trace[i].call = "executions.start" =>
                    FollowedBefore(i, "create_deployment_environment")
              /\ trace[i].call \in {"capabilities.get", "outputs.get",
                                    "json.dump"} =>
                    /\ FollowedBefore(i, "install")
                    /\ trace[i].id = "env_deployment_id"
        /\ outputs_file = "written" =>
              /\ trace[Len(trace)].call = "json.dump"
              /\ IssuedBefore(Len(trace), "capabilities.get")
              /\ IssuedBefore(Len(trace), "outputs.get")

\* C7 witness: create ran to its end and wrote the record.
C7_Witness ==
    /\ op = "create"
    /\ outcome = "done"
    /\ outputs_file = "written"

\* C8: delete issues delete-deployment only after the uninstall execution was
\* started and followed to terminated; while that execution is in any other
\* status, terminal or not, the deployment is still there.
C8_DeleteOrder ==
    op = "delete" =>
        /\ InOrder(<< <<"executions.start", "uninstall">>,
                      <<"follow.returned", "uninstall">>,
                      <<"deployments.delete", "">> >>)
        /\ \A i \in 1..Len(trace) :
              trace[i].call = "deployments.delete" =>
                  /\ FollowedBefore(i, "uninstall")
                  /\ IssuedBefore(i, "executions.start")
        /\ status /= TERMINATED =>
              Resource("deployment", "env_deployment_id") \in resources
        /\ Resource("deployment", "env_deployment_id") \notin resources =>
              \E i \in 1..Len(trace) : trace[i].call = "deployments.delete"

\* C8 witness: delete ran to its end and the deployment is gone.
C8_Witness ==
    /\ op = "delete"
    /\ outcome = "done"
    /\ Resource("deployment", "env_deployment_id") \notin resources

\* C9: uninstall issues start uninstall, follows it to terminated, then
\* delete-deployment, then delete-blueprint: the blueprint is never deleted
\* before the deployment, the deployment never before the uninstall
\* execution ended terminated.
C9_UninstallOrder ==
    op = "uninstall" =>
        /\ InOrder(<< <<"executions.start", "uninstall">>,
                      <<"follow.returned", "uninstall">>,
                      <<"deployments.delete", "">>,
                      <<"blueprints.delete", "">> >>)
        /\ \A i \in 1..Len(trace) :
              /\ trace[i].call = "blueprints.delete" =>
                    IssuedBefore(i, "deployments.delete")
              /\ trace[i].call = "deployments.delete" =>
                    FollowedBefore(i, "uninstall")
        /\ Resource("blueprint", "app_id") \notin resources =>
              Resource("deployment", "app_id") \notin resources
        /\ Resource("deployment", "app_id") \notin resources =>
              status = TERMINATED

\* C9 witness: uninstall ran to its end; deployment and blueprint are gone.
C9_Witness ==
    /\ op = "uninstall"
    /\ outcome = "done"
    /\ resources = {}

\* C10: install issues upload-blueprint under app_id, create-deployment with
\* blueprint id and deployment id app_id, follows the creation execution,
\* starts install and follows it: the deployment is never created before the
\* upload returned, install never started before the creation execution ended
\* terminated.
C10_InstallOrder ==
    op = "install" =>
        /\ InOrder(<< <<"blueprints.upload", "app_blueprint_path">>,
                      <<"deployments.create", "app_id">>,
                      <<"executions.list", "">>,
                      <<"follow.returned", "create_deployment_environment">>,
                      <<"executions.start", "install">>,
                      <<"follow.returned", "install">> >>)
        /\ \A i \in 1..Len(trace) :
              /\ trace[i].call = "blueprints.upload" => trace[i].id = "app_id"
              /\ trace[i].call = "deployments.create" =>
                    /\ IssuedBefore(i, "blueprints.upload")
                    /\ trace[i].arg = "app_id"
                    /\ trace[i].id = "app_id"
              /\ trace[i].call = "executions.start" =>
                    FollowedBefore(i, "create_deployment_environment")
        /\ Resource("deployment", "app_id") \in resources =>
              Resource("blueprint", "app_id") \in resources

\* C10 witness: install ran to its end.
C10_Witness ==
    /\ op = "install"
    /\ outcome = "done"
    /\ Resource("deployment", "app_id") \in resources

(***************************************************************************)
(* Failing calls, and the loop of follow_execution step by step.           *)
(***************************************************************************)
\* Any step of the program itself (not of the service).
ProgramStep ==
    \/ FollowBegin \/ EventsList \/ ExecutionsGet \/ Sleep \/ FollowEnd
    \/ BlueprintsUpload \/ DeploymentsCreate \/ ExecutionsList
    \/ ExecutionsStart \/ DeploymentsDelete \/ BlueprintsDelete
    \/ CapabilitiesGet \/ OutputsGet \/ JsonDump \/ CallFails

\* C11: when an outbound call fails, the failure ends the lifecycle operation
\* at once: the call is not retried, no further call is issued, and the
\* program has no step left.
C11_FailurePropagatesAtOnce ==
    \A i \in 1..Len(trace) :
        trace[i].call = "error" =>
            /\ i = Len(trace)
            /\ outcome = "raised"
            /\ fpc = "idle"
            /\ ~ENABLED ProgramStep
            /\ resources =
                  ResourcesAfter(InitialResources(op), SubSeq(trace, 1, i - 1))

\* C11 witness: executions.get failed inside follow_execution after events
\* were emitted, and the operation ended there.
C11_Witness ==
    /\ trace /= << >>
    /\ trace[Len(trace)].call = "error"
    /\ trace[Len(trace)].arg = "executions.get"
    /\ emitted /= << >>
    /\ outcome = "raised"

\* C12: the status is read only where offset equals the total the latest
\* page reported.
C12_StatusReadOnlyWhenDrained ==
    fpc = "get" =>
        /\ offset = total
        /\ offset = Len(emitted)
        /\ ~execution_ended

\* C12 witness: the status is about to be read after the events were drained
\* over more than one page.
C12_Witness ==
    /\ fpc = "get"
    /\ items /= << >>
    /\ offset > Len(items)
    /\ offset = total

\* C13: follow_execution goes to sleep only directly after a status read
\* that returned a non-terminal status, with offset not below the page total;
\* a page that leaves offset < total is followed by the next fetch, with no
\* sleep and no status read in between; a terminal status read is followed by
\* the next fetch with no sleep; and a sleep is followed by a fetch.
C13_SleepOnlyAfterNonTerminalRead ==
    [][ /\ (fpc' = "sleep" /\ fpc /= "sleep") =>
              /\ fpc = "get"
              /\ ~InEndStates(execution'.status)
              /\ ~execution_ended'
              /\ offset' >= total'
        /\ (fpc = "list" /\ fpc' /= "idle" /\ offset' < total') =>
              fpc' = "list"
        /\ (fpc = "get" /\ fpc' \notin {"get", "idle"}
                        /\ InEndStates(execution'.status)) =>
              fpc' = "list"
        /\ (fpc = "sleep" /\ fpc' \notin {"sleep", "idle"}) =>
              fpc' = "list"
      ]_vars

\* C13 witness: the follower sleeps after a non-terminal status read that
\* came after several pages fetched back to back.
C13_Witness ==
    /\ fpc = "sleep"
    /\ ~InEndStates(execution.status)
    /\ items /= << >>
    /\ offset > Len(items)
    /\ offset = total

\* C14: within one follow_execution call offset starts at 0, never
\* decreases, grows with each page by exactly the number of its items, equals
\* the number of events emitted so far at every step, and is the _offset of
\* each events.list request.
C14_OffsetCountsEmitted ==
    /\ [](offset = Len(emitted))
    /\ [][ /\ (fpc = "idle" /\ fpc' = "list") => offset' = 0
           /\ fpc /= "idle" => offset' >= offset
           /\ (fpc = "list" /\ (offset' /= offset \/ emitted' /= emitted)) =>
                 /\ items' = SubSeq(events, offset + 1, offset + Len(items'))
                 /\ emitted' = emitted \o items'
                 /\ offset' = offset + Len(items')
           /\ fpc \in {"get", "sleep", "end"} =>
                 (offset' = offset /\ emitted' = emitted)
         ]_vars

\* C14 witness: a page of several items was added to events emitted from
\* earlier pages.
C14_Witness ==
    /\ fpc = "list"
    /\ Len(items) >= 2
    /\ offset > Len(items)
    /\ offset = Len(emitted)

\* C15: once a terminal status was read, execution_ended stays true and the
\* status is not read again in this call: the follower only fetches pages or
\* leaves, `execution` keeps the value of that read, and the verdict carries
\* the id and status of exactly that read.
C15_TerminalReadIsFinal ==
    /\ []((execution_ended /\ fpc /= "idle") =>
              /\ fpc \in {"list", "end"}
              /\ InEndStates(execution.status))
    /\ [][ /\ (execution_ended /\ fpc /= "idle") =>
                 /\ execution_ended'
                 /\ execution' = execution
                 /\ fpc' \in {"list", "end", "idle"}
           /\ (fpc = "end" /\ result' /= result) =>
                 /\ result'.id = execution.id
                 /\ result'.status = execution.status
                 /\ result'.kind = IF execution.status = TERMINATED
                                   THEN "returned" ELSE "raised"
         ]_vars

\* C15 witness: a verdict after more than one page was drained following the
\* terminal status read.
C15_Witness ==
    /\ Verdict
    /\ execution_ended
    /\ items /= << >>
    /\ Len(emitted) > emittedAtEnd + Len(items)

\* follow_execution is running.
InFollow == fpc /= "idle"

\* C16: when the execution reaches a terminal status and stays there, the
\* total stops growing, and no page is starved, follow_execution eventually
\* returns or raises; and after a starved page a further page without items
\* sends the follower straight back to events.list, with no sleep and no
\* status read.
C16_FollowTerminatesUnlessStarved ==
    /\ ([]~StarvedPage) => (InFollow ~> ~InFollow)
    /\ [](StarvedPage =>
            AfterPage(NextOffset(offset, << >>), total, execution_ended)
                = "list")

\* C16 witness: a starved page after the terminal status was read and part of
\* the events were emitted.
C16_Witness ==
    /\ StarvedPage
    /\ execution_ended
    /\ emitted /= << >>

====
